---- MODULE Spec2Model ----
(***************************************************************************)
(* Saafir: routing of a natural-language request to one registered action. *)
(*                                                                         *)
(* The model follows Saafir.run and the methods it calls.  Two versions of *)
(* the class are in the repository: src/index.ts (run validates the        *)
(* envelope's parameters directly) and src/unnamed/part_001 (run first     *)
(* passes them through preprocessParameters).  The variable coercionLayer  *)
(* says which of the two run methods an instance executes.                 *)
(*                                                                         *)
(* JavaScript values are records [k |-> kind, v |-> payload]:              *)
(*   undefined, null          no payload                                   *)
(*   bool                     v is a BOOLEAN                               *)
(*   num                      v is an integer                              *)
(*   str                      v is a sequence of atoms; an atom is a run   *)
(*                            of characters written as one TLA+ string,    *)
(*                            punctuation and blanks are atoms of their own*)
(*   arr                      v is a sequence of values                    *)
(*   obj                      v is a function from keys to values          *)
(*   date                     v is the text it was built from, <<>> for an *)
(*                            Invalid Date                                 *)
(***************************************************************************)
EXTENDS Integers, Sequences, FiniteSets, TLC

VARIABLES
    actions,            \* this.actions: the registry given at construction
    mockChatResponse,   \* this.mockChatResponse: a raw text, or NoMock
    coercionLayer,      \* TRUE: run of part_001, FALSE: run of index.ts
    context,            \* this.context: the text of the system message
    run                 \* per invocation: the locals of run and where it is

vars == <<actions, mockChatResponse, coercionLayer, context, run>>

(***************************************************************************)
(* JavaScript values                                                       *)
(***************************************************************************)
Undef == [k |-> "undefined"]
Null == [k |-> "null"]
Bool(b) == [k |-> "bool", v |-> b]
Num(n) == [k |-> "num", v |-> n]
Str(s) == [k |-> "str", v |-> s]
Arr(s) == [k |-> "arr", v |-> s]
Obj(f) == [k |-> "obj", v |-> f]
Date(s) == [k |-> "date", v |-> s]

Word(a) == Str(<<a>>)
EmptyObj == Obj(<<>>)

\* typeof x
TypeOf(x) ==
    CASE x.k = "undefined" -> "undefined"
      [] x.k = "bool" -> "boolean"
      [] x.k = "num" -> "number"
      [] x.k = "str" -> "string"
      [] OTHER -> "object"

\* ToBoolean(x), as used by `if (x)`, `x && ...` and `!x`
Truthy(x) ==
    CASE x.k \in {"undefined", "null"} -> FALSE
      [] x.k = "bool" -> x.v
      [] x.k = "num" -> x.v # 0
      [] x.k = "str" -> x.v # <<>>
      [] OTHER -> TRUE

(***************************************************************************)
(* Texts.  A chat completion text is a sequence of tokens [t, d]:          *)
(*   ticks  three backticks          json   the letters json               *)
(*   nl     a line feed              sp     a blank                        *)
(*   prose  any run of other characters that is no JSON                    *)
(*   doc    the text of one syntactically valid JSON value, without        *)
(*          blanks around it; d is the value it denotes                    *)
(*   lit    a fixed piece of message text; d is that text                  *)
(* A valid JSON value neither starts nor ends with a backtick, so a fence  *)
(* never reaches into a doc token.                                         *)
(***************************************************************************)
Tok(t) == [t |-> t, d |-> Undef]
Ticks == Tok("ticks")
Json == Tok("json")
Nl == Tok("nl")
Sp == Tok("sp")
Prose == Tok("prose")
Doc(value) == [t |-> "doc", d |-> value]
Lit(a) == [t |-> "lit", d |-> Word(a)]

IsSpace(tok) == tok.t \in {"nl", "sp"}

\* The text of a JavaScript string value inside a message
StrToks(x) == [i \in 1..Len(x.v) |-> Lit(x.v[i])]

RECURSIVE TrimStart(_)
\* String.prototype.trimStart on a text
TrimStart(s) ==
    IF s # <<>> /\ IsSpace(Head(s)) THEN TrimStart(Tail(s)) ELSE s

RECURSIVE TrimEnd(_)
\* String.prototype.trimEnd on a text
TrimEnd(s) ==
    IF s # <<>> /\ IsSpace(s[Len(s)]) THEN TrimEnd(SubSeq(s, 1, Len(s) - 1)) ELSE s

\* String.prototype.trim on a text
Trim(s) == TrimEnd(TrimStart(s))

RECURSIVE StripLeadingFences(_)
\* a pattern that removes the opening fence as often as the text starts with it
StripLeadingFences(s) ==
    IF Len(s) >= 3 /\ s[1].t = "ticks" /\ s[2].t = "json" /\ s[3].t = "nl"
    THEN StripLeadingFences(SubSeq(s, 4, Len(s)))
    ELSE s

\* first alternative of /^```json\n|```$/g: the fence at the very start
StripLeadingFence(s) ==
    IF Len(s) >= 3 /\ s[1].t = "ticks" /\ s[2].t = "json" /\ s[3].t = "nl"
    THEN SubSeq(s, 4, Len(s))
    ELSE s

\* a pattern without its second alternative
StripTrailingFenceNever(s) == s

\* second alternative of /^```json\n|```$/g: three backticks at the very end
StripTrailingFence(s) ==
    IF s # <<>> /\ s[Len(s)].t = "ticks" THEN SubSeq(s, 1, Len(s) - 1) ELSE s

\* response.replace(/^```json\n|```$/g, "").trim()
Clean(response) == Trim(StripTrailingFence(StripLeadingFence(response)))

\* JSON.parse(text): blanks may surround the one value; anything else is a
\* SyntaxError
JsonParse(text) ==
    LET body == Trim(text) IN
    IF Len(body) = 1 /\ body[1].t = "doc"
    THEN [ok |-> TRUE, value |-> body[1].d]
    ELSE [ok |-> FALSE, value |-> Undef]

(***************************************************************************)
(* Errors: [name, message]; a thrown value that is no Error object has the *)
(* name "" and its own text as message.                                    *)
(***************************************************************************)
Err(name, message) == [name |-> name, message |-> message]
NoError == Err("none", <<>>)

\* `${error}`: Error.prototype.toString, or the text of a thrown string
ErrorToString(e) ==
    IF e.name = "" THEN e.message
    ELSE IF e.message = <<>> THEN <<Lit(e.name)>>
    ELSE <<Lit(e.name), Lit(": ")>> \o e.message

\* obj.key for a key that no prototype defines; reading a property of null
\* or undefined is a TypeError, reported by ok = FALSE
OwnGet(x, key) ==
    IF x.k \in {"null", "undefined"} THEN [ok |-> FALSE, value |-> Undef]
    ELSE IF x.k = "obj" /\ key \in DOMAIN x.v THEN [ok |-> TRUE, value |-> x.v[key]]
    ELSE [ok |-> TRUE, value |-> Undef]

\* the condition of the if in determineActionAndExtractParams
EnvelopeShapeOk(parsed) ==
    /\ OwnGet(parsed, "actionName").ok
    /\ TypeOf(OwnGet(parsed, "actionName").value) = "string"
    /\ TypeOf(OwnGet(parsed, "parameters").value) = "object"
    /\ TypeOf(OwnGet(parsed, "response").value) = "string"

\* a catch block that reports the text after fence stripping
InvalidJsonErrorOfClean(response) ==
    Err("Error", <<Lit("AI response is not valid JSON: ")>> \o Clean(response))

\* the error thrown by the catch block of determineActionAndExtractParams
InvalidJsonError(response) ==
    Err("Error", <<Lit("AI response is not valid JSON: ")>> \o response)

\* the try block of determineActionAndExtractParams on the text chat returned:
\* the parsed envelope, or the error of the catch block
\* (clean and parsed are bound to their values once, as the two constants of
\* the code are)
ParseEnvelope(response) ==
    CHOOSE got \in
        {IF parsed.ok /\ EnvelopeShapeOk(parsed.value)
         THEN [ok |-> TRUE, envelope |-> parsed.value, error |-> NoError]
         ELSE [ok |-> FALSE, envelope |-> Undef, error |-> InvalidJsonError(response)] :
            parsed \in {JsonParse(clean) : clean \in {Clean(response)}}} : TRUE

(***************************************************************************)
(* Strings held by parameters: sequences of atoms.  The atoms [ ] { } " ,  *)
(* : and the blank stand for themselves, every other atom is a run of      *)
(* letters, digits and signs without any of these.                         *)
(***************************************************************************)
Quote == "\""

\* String.prototype.toLowerCase on one atom
LowerAtom(a) ==
    CASE a \in {"TRUE", "True", "tRuE"} -> "true"
      [] a \in {"FALSE", "False", "fAlSe"} -> "false"
      [] a \in {"YES", "Yes"} -> "yes"
      [] a \in {"NO", "No"} -> "no"
      [] a = "Maybe" -> "maybe"
      [] OTHER -> a

\* String.prototype.toLowerCase
ToLowerCase(s) == [i \in 1..Len(s) |-> LowerAtom(s[i])]

RECURSIVE TrimAtomsStart(_)
TrimAtomsStart(s) ==
    IF s # <<>> /\ Head(s) = " " THEN TrimAtomsStart(Tail(s)) ELSE s

RECURSIVE TrimAtomsEnd(_)
TrimAtomsEnd(s) ==
    IF s # <<>> /\ s[Len(s)] = " " THEN TrimAtomsEnd(SubSeq(s, 1, Len(s) - 1)) ELSE s

\* String.prototype.trim on a parameter string
TrimAtoms(s) == TrimAtomsEnd(TrimAtomsStart(s))

\* acc with atom a added to its last piece
AddToLast(acc, a) == [acc EXCEPT ![Len(acc)] = Append(@, a)]

RECURSIVE SplitPlain(_, _, _)
\* String.prototype.split(sep): the pieces between every occurrence of sep
SplitPlain(s, sep, acc) ==
    IF s = <<>> THEN acc
    ELSE IF Head(s) = sep THEN SplitPlain(Tail(s), sep, Append(acc, <<>>))
    ELSE SplitPlain(Tail(s), sep, AddToLast(acc, Head(s)))

\* processed[key].split(',').map(item => item.trim())
CommaSplit(s) ==
    LET pieces == SplitPlain(s, ",", <<(<<>>)>>) IN
    [i \in 1..Len(pieces) |-> Str(TrimAtoms(pieces[i]))]

RECURSIVE SplitTop(_, _, _, _, _)
\* the pieces of a JSON text between the occurrences of sep that are outside
\* every string and every bracket
SplitTop(s, sep, depth, quoted, acc) ==
    IF s = <<>> THEN acc
    ELSE LET a == Head(s) IN
         IF a = Quote THEN SplitTop(Tail(s), sep, depth, ~quoted, AddToLast(acc, a))
         ELSE IF quoted THEN SplitTop(Tail(s), sep, depth, quoted, AddToLast(acc, a))
         ELSE IF a \in {"[", "{"}
              THEN SplitTop(Tail(s), sep, depth + 1, quoted, AddToLast(acc, a))
         ELSE IF a \in {"]", "}"}
              THEN SplitTop(Tail(s), sep, depth - 1, quoted, AddToLast(acc, a))
         ELSE IF a = sep /\ depth = 0
              THEN SplitTop(Tail(s), sep, depth, quoted, Append(acc, <<>>))
         ELSE SplitTop(Tail(s), sep, depth, quoted, AddToLast(acc, a))

\* the JSON number a digit atom denotes
NumberAtoms ==
    [a \in {"0", "1", "2", "3", "5", "42"} |->
        CASE a = "0" -> 0 [] a = "1" -> 1 [] a = "2" -> 2
          [] a = "3" -> 3 [] a = "5" -> 5 [] OTHER -> 42]

JsonFail == [ok |-> FALSE, value |-> Undef]
JsonOk(x) == [ok |-> TRUE, value |-> x]

\* the atoms strictly inside the first and the last atom
Inner(s) == SubSeq(s, 2, Len(s) - 1)

\* the part of a "key": value member before / after its first top-level colon
RECURSIVE JoinFrom(_, _)
JoinFrom(pieces, i) ==
    IF i > Len(pieces) THEN <<>>
    ELSE IF i = Len(pieces) THEN pieces[i]
    ELSE pieces[i] \o <<":">> \o JoinFrom(pieces, i + 1)

RECURSIVE JsonValue(_)
\* JSON.parse on a parameter string (no escapes inside strings, keys of one
\* atom): [ok, value], ok = FALSE for a SyntaxError
JsonValue(text) ==
    LET s == TrimAtoms(text) IN
    IF s = <<>> THEN JsonFail
    ELSE IF s = <<"true">> THEN JsonOk(Bool(TRUE))
    ELSE IF s = <<"false">> THEN JsonOk(Bool(FALSE))
    ELSE IF s = <<"null">> THEN JsonOk(Null)
    ELSE IF Len(s) = 1
         THEN IF s[1] \in DOMAIN NumberAtoms THEN JsonOk(Num(NumberAtoms[s[1]]))
              ELSE JsonFail
    ELSE IF s[1] = Quote
         THEN IF s[Len(s)] = Quote /\ \A i \in 2..(Len(s) - 1) : s[i] # Quote
              THEN JsonOk(Str(Inner(s)))
              ELSE JsonFail
    ELSE IF s[1] = "[" /\ s[Len(s)] = "]"
         THEN IF TrimAtoms(Inner(s)) = <<>> THEN JsonOk(Arr(<<>>))
              ELSE LET parts == SplitTop(Inner(s), ",", 0, FALSE, <<(<<>>)>>)
                       vals == [i \in 1..Len(parts) |-> JsonValue(parts[i])]
                   IN  IF \A i \in 1..Len(parts) : vals[i].ok
                       THEN JsonOk(Arr([i \in 1..Len(parts) |-> vals[i].value]))
                       ELSE JsonFail
    ELSE IF s[1] = "{" /\ s[Len(s)] = "}"
         THEN IF TrimAtoms(Inner(s)) = <<>> THEN JsonOk(Obj(<<>>))
              ELSE LET parts == SplitTop(Inner(s), ",", 0, FALSE, <<(<<>>)>>)
                       kv == [i \in 1..Len(parts) |->
                                 SplitTop(parts[i], ":", 0, FALSE, <<(<<>>)>>)]
                       key == [i \in 1..Len(parts) |-> JsonValue(kv[i][1])]
                       val == [i \in 1..Len(parts) |->
                                  IF Len(kv[i]) < 2 THEN JsonFail
                                  ELSE JsonValue(JoinFrom(kv[i], 2))]
                       good == \A i \in 1..Len(parts) :
                                  /\ key[i].ok /\ key[i].value.k = "str"
                                  /\ Len(key[i].value.v) = 1
                                  /\ val[i].ok
                       keys == {key[i].value.v[1] : i \in 1..Len(parts)}
                       \* a repeated key keeps its last value
                       last(name) == CHOOSE i \in 1..Len(parts) :
                                        /\ key[i].value.v[1] = name
                                        /\ \A j \in 1..Len(parts) :
                                              key[j].value.v[1] = name => j <= i
                   IN  IF good
                       THEN JsonOk(Obj([name \in keys |-> val[last(name)].value]))
                       ELSE JsonFail
    ELSE JsonFail

\* the dates new Date(text) can read; any other text gives an Invalid Date
DateTexts == {<<"2024-01-15">>, <<"2024-01-15T10:00:00Z">>}

\* new Date(text) for a string: it never throws
NewDate(s) == IF s \in DateTexts THEN Date(s) ELSE Date(<<>>)

(***************************************************************************)
(* The schema boundary (zod 3): a schema is [kind, ...]; parse gives       *)
(* [success, data, issues], issues being the set of <<path, code>> of a    *)
(* ZodError.                                                               *)
(***************************************************************************)
ZString == [kind |-> "string"]
ZNumber == [kind |-> "number"]
ZBoolean == [kind |-> "boolean"]
ZDate == [kind |-> "date"]
ZAny == [kind |-> "any"]
ZEnum(values) == [kind |-> "enum", values |-> values]
ZArray(element) == [kind |-> "array", element |-> element]
ZObject(shape) == [kind |-> "object", shape |-> shape]
ZOptional(innerType) == [kind |-> "optional", innerType |-> innerType]
\* the value of action.schema when action has no such property
NoSchema == [kind |-> "undefined"]

ZOk(x) == [success |-> TRUE, data |-> x, issues |-> {}]
ZFail(issues) == [success |-> FALSE, data |-> Undef, issues |-> issues]

\* the issues of a member, with the member's key put before their paths
Under(key, issues) == {<<(<<key>>) \o i[1], i[2]>> : i \in issues}

\* the keys "0", "1", ... of the elements of an array
IndexKeys == <<"0", "1", "2", "3">>

RECURSIVE ZodParse(_, _)
\* schema.parse(x)
ZodParse(schema, x) ==
    CASE schema.kind = "any" -> ZOk(x)
      [] schema.kind = "string" ->
            IF x.k = "str" THEN ZOk(x) ELSE ZFail({<<(<<>>), "invalid_type">>})
      [] schema.kind = "number" ->
            IF x.k = "num" THEN ZOk(x) ELSE ZFail({<<(<<>>), "invalid_type">>})
      [] schema.kind = "boolean" ->
            IF x.k = "bool" THEN ZOk(x) ELSE ZFail({<<(<<>>), "invalid_type">>})
      [] schema.kind = "date" ->
            IF x.k # "date" THEN ZFail({<<(<<>>), "invalid_type">>})
            ELSE IF x.v = <<>> THEN ZFail({<<(<<>>), "invalid_date">>})
            ELSE ZOk(x)
      [] schema.kind = "enum" ->
            IF x.k # "str" THEN ZFail({<<(<<>>), "invalid_type">>})
            ELSE IF x \notin schema.values THEN ZFail({<<(<<>>), "invalid_enum_value">>})
            ELSE ZOk(x)
      [] schema.kind = "optional" ->
            IF x = Undef THEN ZOk(Undef) ELSE ZodParse(schema.innerType, x)
      [] schema.kind = "array" ->
            IF x.k # "arr" THEN ZFail({<<(<<>>), "invalid_type">>})
            ELSE LET sub == [i \in 1..Len(x.v) |-> ZodParse(schema.element, x.v[i])] IN
                 IF \A i \in 1..Len(x.v) : sub[i].success
                 THEN ZOk(Arr([i \in 1..Len(x.v) |-> sub[i].data]))
                 ELSE ZFail(UNION {Under(IndexKeys[i], sub[i].issues) : i \in 1..Len(x.v)})
      [] schema.kind = "object" ->
            IF x.k # "obj" THEN ZFail({<<(<<>>), "invalid_type">>})
            ELSE LET keys == DOMAIN schema.shape
                     given(key) == IF key \in DOMAIN x.v THEN x.v[key] ELSE Undef
                     sub == [key \in keys |-> ZodParse(schema.shape[key], given(key))]
                     \* unknown keys are stripped; a declared key is set when
                     \* the input has it or its parsed value is not undefined
                     kept == {key \in keys : key \in DOMAIN x.v \/ sub[key].data # Undef}
                 IN  IF \A key \in keys : sub[key].success
                     THEN ZOk(Obj([key \in kept |-> sub[key].data]))
                     ELSE ZFail(UNION {Under(key, sub[key].issues) : key \in keys})

\* the ZodError that schema.parse throws
ZodError(issues) == Err("ZodError", <<[t |-> "issues", d |-> Obj([issues |-> issues])]>>)

(***************************************************************************)
(* Parameter coercion: preprocessParameters of src/unnamed/part_001        *)
(***************************************************************************)
\* fieldSchema instanceof z.ZodOptional && fieldSchema._def.innerType instanceof kind
IsOptionalOf(fieldSchema, kind) ==
    fieldSchema.kind = "optional" /\ fieldSchema.innerType.kind = kind

\* { ...parameters }: a new object with the own enumerable properties
Spread(parameters) ==
    CASE parameters.k = "obj" -> parameters
      [] parameters.k = "arr" ->
            Obj([key \in {IndexKeys[i] : i \in 1..Len(parameters.v)} |->
                    parameters.v[CHOOSE i \in 1..Len(parameters.v) : IndexKeys[i] = key]])
      [] OTHER -> EmptyObj

\* the body of the two date blocks: new Date never throws
CoerceDate(x) == NewDate(x.v)

\* boolean blocks that compare the string as it is written
CoerceBooleanCaseSensitive(x) ==
    IF x.v \in {<<"true">>, <<"1">>, <<"yes">>} THEN Bool(TRUE)
    ELSE IF x.v \in {<<"false">>, <<"0">>, <<"no">>} THEN Bool(FALSE)
    ELSE x

\* the body of the two boolean blocks
CoerceBoolean(x) ==
    LET stringValue == ToLowerCase(x.v) IN
    IF stringValue \in {<<"true">>, <<"1">>, <<"yes">>} THEN Bool(TRUE)
    ELSE IF stringValue \in {<<"false">>, <<"0">>, <<"no">>} THEN Bool(FALSE)
    ELSE x

\* the body of the two array blocks: JSON.parse, else split on commas
\* (split and trim never throw on a string)
CoerceArray(x) ==
    IF JsonValue(x.v).ok THEN JsonValue(x.v).value ELSE Arr(CommaSplit(x.v))

\* the body of the two object blocks: JSON.parse, else the value stays
CoerceObject(x) ==
    IF JsonValue(x.v).ok THEN JsonValue(x.v).value ELSE x

\* processed[key] && typeof processed[key] === 'string'
NonEmptyString(x) == Truthy(x) /\ TypeOf(x) = "string"

\* if (fieldSchema instanceof z.ZodDate && processed[key] && typeof ... === 'string')
DateBlock(fieldSchema, x) ==
    IF fieldSchema.kind = "date" /\ NonEmptyString(x) THEN CoerceDate(x) ELSE x

OptionalDateBlock(fieldSchema, x) ==
    IF IsOptionalOf(fieldSchema, "date") /\ NonEmptyString(x) THEN CoerceDate(x) ELSE x

\* a boolean block that also repairs the numbers 1 and 0
BooleanBlockOfNumbers(fieldSchema, x) ==
    IF fieldSchema.kind = "boolean" /\ TypeOf(x) = "number" THEN Bool(x.v # 0)
    ELSE IF fieldSchema.kind = "boolean" /\ TypeOf(x) = "string" THEN CoerceBoolean(x)
    ELSE x

\* if (fieldSchema instanceof z.ZodBoolean && processed[key] !== undefined && ...)
BooleanBlock(fieldSchema, x) ==
    IF fieldSchema.kind = "boolean" /\ x # Undef /\ TypeOf(x) = "string"
    THEN CoerceBoolean(x) ELSE x

OptionalBooleanBlock(fieldSchema, x) ==
    IF IsOptionalOf(fieldSchema, "boolean") /\ x # Undef /\ TypeOf(x) = "string"
    THEN CoerceBoolean(x) ELSE x

ArrayBlock(fieldSchema, x) ==
    IF fieldSchema.kind = "array" /\ NonEmptyString(x) THEN CoerceArray(x) ELSE x

OptionalArrayBlock(fieldSchema, x) ==
    IF IsOptionalOf(fieldSchema, "array") /\ NonEmptyString(x) THEN CoerceArray(x) ELSE x

ObjectBlock(fieldSchema, x) ==
    IF fieldSchema.kind = "object" /\ NonEmptyString(x) THEN CoerceObject(x) ELSE x

OptionalObjectBlock(fieldSchema, x) ==
    IF IsOptionalOf(fieldSchema, "object") /\ NonEmptyString(x) THEN CoerceObject(x) ELSE x

\* blocks that also turn a numeric string in a number field into a number
CoerceFieldOfNumbers(fieldSchema, x) ==
    IF fieldSchema.kind = "number" /\ NonEmptyString(x) /\ JsonValue(x.v).ok
    THEN JsonValue(x.v).value
    ELSE OptionalObjectBlock(fieldSchema,
           ObjectBlock(fieldSchema,
             OptionalArrayBlock(fieldSchema,
               ArrayBlock(fieldSchema,
                 OptionalBooleanBlock(fieldSchema,
                   BooleanBlock(fieldSchema,
                     OptionalDateBlock(fieldSchema,
                       DateBlock(fieldSchema, x))))))))

\* the eight if blocks of the forEach callback, in their order, on the value
\* of one declared key
CoerceField(fieldSchema, x) ==
    OptionalObjectBlock(fieldSchema,
      ObjectBlock(fieldSchema,
        OptionalArrayBlock(fieldSchema,
          ArrayBlock(fieldSchema,
            OptionalBooleanBlock(fieldSchema,
              BooleanBlock(fieldSchema,
                OptionalDateBlock(fieldSchema,
                  DateBlock(fieldSchema, x))))))))

\* a layer that copies the parameters into a new object for every schema
PreprocessWithoutSchemaTest(parameters, schema) ==
    LET processed == Spread(parameters) IN
    Obj([key \in DOMAIN processed.v |->
            IF schema.kind = "object" /\ key \in DOMAIN schema.shape
            THEN CoerceField(schema.shape[key], processed.v[key])
            ELSE processed.v[key]])

\* preprocessParameters(parameters, schema)
PreprocessParameters(parameters, schema) ==
    IF schema.kind # "object" THEN parameters
    ELSE LET processed == Spread(parameters) IN
         Obj([key \in DOMAIN processed.v |->
                 IF key \in DOMAIN schema.shape
                 THEN CoerceField(schema.shape[key], processed.v[key])
                 ELSE processed.v[key]])

(***************************************************************************)
(* The registry and the instance                                           *)
(***************************************************************************)
\* the number of invocations of run that are told apart
MaxSlots == 2

\* the invocations of run on the one instance
Slots == 1..MaxSlots

\* an ActionDefinition: call names the handler, schema is its zod schema
Action(call, schema) == [def |-> "own", call |-> call, schema |-> schema]
\* what this.actions[name] gives for a name Object.prototype defines: a
\* built-in function or object, which has no schema property
Inherited(name) == [def |-> "inherited", call |-> name, schema |-> NoSchema]
\* null, the value of `undefined ?? null`
NoAction == [def |-> "null", call |-> "", schema |-> NoSchema]

\* options.actions of the modelled instance: the object literal of the README
\* and of the tests, with one action for every kind of field the coercion
\* layer knows and one whose schema is no object schema
Registry ==
    [getWeather |-> Action("getWeather", ZObject([city |-> ZString])),
     addNumbers |-> Action("addNumbers", ZObject([a |-> ZNumber, b |-> ZNumber])),
     schedule |-> Action("schedule",
                    ZObject([done |-> ZBoolean,
                             flag |-> ZOptional(ZBoolean),
                             due |-> ZOptional(ZDate),
                             tags |-> ZArray(ZString),
                             meta |-> ZOptional(ZObject([x |-> ZNumber]))])),
     ping |-> Action("ping",
                ZObject([note |-> ZOptional(ZString),
                         level |-> ZOptional(ZEnum({Word("low"), Word("high")}))])),
     log |-> Action("log", ZAny)]

\* a member of options.actions that is no ActionDefinition but an object of
\* further members, as in the action tree of the README: it has neither call
\* nor schema
Branch(children) ==
    [def |-> "branch", call |-> "", schema |-> NoSchema, children |-> children]

\* options.actions written as a tree: two groups of actions and one action
\* at the top
NestedRegistry ==
    [calculator |->
        Branch([add |-> Action("add", ZObject([a |-> ZNumber, b |-> ZNumber])),
                subtract |-> Action("subtract", ZObject([a |-> ZNumber, b |-> ZNumber]))]),
     user |->
        Branch([profile |->
                   Branch([get |-> Action("getUserProfile", ZObject([id |-> ZString]))])]),
     getWeather |-> Action("getWeather", ZObject([city |-> ZString]))]

\* the property names every object literal inherits from Object.prototype
ObjectPrototypeKeys ==
    {"constructor", "toString", "valueOf", "hasOwnProperty", "__proto__"}

\* this.actions[name] ?? null
FindActionByName(registry, name) ==
    LET key == IF Len(name.v) = 1 THEN name.v[1] ELSE "" IN
    IF key \in DOMAIN registry THEN registry[key]
    ELSE IF key \in ObjectPrototypeKeys THEN Inherited(key)
    ELSE NoAction

\* Object.keys(this.actions): the keys in the order of the object literal
Keys(registry) ==
    IF "calculator" \in DOMAIN registry
    THEN <<"calculator", "user", "getWeather">>
    ELSE <<"getWeather", "addNumbers", "schedule", "ping", "log">>

\* JSON.stringify(zodToJsonSchema(action.schema)), as one piece of text
SchemaText(name) == [t |-> "schema", d |-> Word(name)]

RECURSIVE JoinTexts(_, _)
\* Array.prototype.join
JoinTexts(texts, separator) ==
    IF texts = <<>> THEN <<>>
    ELSE IF Len(texts) = 1 THEN texts[1]
    ELSE texts[1] \o separator \o JoinTexts(Tail(texts), separator)

\* the text the constructor writes when options.context is not given: one
\* line per entry of this.actions (no entry has a description)
GeneratedContext(registry) ==
    <<Lit("You are a helpful AI assistant.\nAvailable actions:\n")>>
        \o JoinTexts([i \in 1..Len(Keys(registry)) |->
                        <<Lit("- "), Lit(Keys(registry)[i]),
                          Lit(": No description available.\n  Schema: "),
                          SchemaText(Keys(registry)[i])>>],
                     <<Nl>>)

\* the values of options.context that are modelled: none, the empty string,
\* a text
NoContext == <<Tok("undefined")>>
ContextInputs ==
    {NoContext, <<>>, <<Lit("You are a helpful AI assistant for weather and sums.")>>}

\* this.context = options.context || `You are a helpful AI assistant. ...`
ContextOf(option, registry) ==
    IF option # NoContext /\ option # <<>> THEN option ELSE GeneratedContext(registry)

\* actionListStr of determineActionAndExtractParams
ActionListStr(registry) ==
    JoinTexts([i \in 1..Len(Keys(registry)) |->
                  <<Lit("Action: \""), Lit(Keys(registry)[i]),
                    Lit("\"\nDescription: No description available\nSchema: "),
                    SchemaText(Keys(registry)[i])>>],
              <<Nl, Nl>>)

\* a prompt that leaves out what the user wrote
PromptWithoutInput(registry, input) ==
    <<Lit("You are an AI assistant. Based on the user's input and the available actions below, select the most appropriate action and extract parameters according to its schema."),
      Nl, Nl>>
        \o ActionListStr(registry)
        \o <<Nl, Nl, Lit("Return only a JSON in the following format: ...")>>

\* prompt of determineActionAndExtractParams
Prompt(registry, input) ==
    <<Lit("You are an AI assistant. Based on the user's input and the available actions below, select the most appropriate action and extract parameters according to its schema."),
      Nl, Nl>>
        \o ActionListStr(registry)
        \o <<Nl, Nl, Lit("User input: \"")>> \o input \o <<Lit("\""), Nl, Nl,
              Lit("Return only a JSON in the following format: ...")>>

\* the messages with the user's message first
MessagesUserFirst(system, user) ==
    <<[role |-> "user", content |-> user], [role |-> "system", content |-> system]>>

\* the argument of this.chat in determineActionAndExtractParams
Messages(system, user) ==
    <<[role |-> "system", content |-> system], [role |-> "user", content |-> user]>>

\* what a user may write
UserInputs ==
    {<<Lit("What's the weather like in Istanbul?")>>, <<Lit("add 2 and 3")>>}

\* the value of options.mockChatResponse when none is given
NoMock == <<Tok("undefined")>>

(***************************************************************************)
(* What the collaborators may produce: the envelopes a language model may  *)
(* write, the texts around them, and what a handler may do.                *)
(***************************************************************************)
Envelope(actionName, parameters, response) ==
    Obj([actionName |-> actionName, parameters |-> parameters, response |-> response])

\* action names a model may write: registered, unregistered, inherited, empty
NameInputs ==
    {Word("getWeather"), Word("addNumbers"), Word("schedule"), Word("ping"),
     Word("log"), Word("unknown"), Word("constructor"), Word("__proto__"), Str(<<>>)}

\* parameters values for which typeof is "object"
ParameterInputs ==
    {Obj([city |-> Word("Istanbul")]),
     Obj([city |-> Num(5)]),
     Obj([city |-> Word("Istanbul"), extra |-> Word("x")]),
     EmptyObj,
     Obj([a |-> Num(2), b |-> Num(3)]),
     Obj([a |-> Word("2"), b |-> Word("3")]),
     Obj([done |-> Bool(TRUE), tags |-> Arr(<<Word("a")>>)]),
     Obj([done |-> Word("TRUE"), tags |-> Str(<<"a", ",", " ", "b">>)]),
     Obj([done |-> Word("maybe"), tags |-> Arr(<<>>)]),
     Obj([done |-> Word("no"),
          tags |-> Str(<<"[", Quote, "a", Quote, ",", Quote, "b", Quote, "]">>),
          due |-> Word("2024-01-15"),
          meta |-> Str(<<"{", Quote, "x", Quote, ":", "1", "}">>)]),
     Obj([done |-> Bool(FALSE), tags |-> Word("5")]),
     Obj([done |-> Bool(TRUE), tags |-> Arr(<<Word("a")>>), due |-> Word("tomorrow")]),
     Obj([done |-> Bool(TRUE), tags |-> Arr(<<Word("a")>>), meta |-> Word("oops")]),
     Obj([done |-> Str(<<>>), tags |-> Str(<<>>)]),
     Obj([note |-> Word("true"), level |-> Word("low")]),
     Null,
     Arr(<<Word("Istanbul")>>)}

\* strings a model may write where a boolean is declared
BooleanTexts ==
    {Word(a) : a \in {"true", "TRUE", "True", "tRuE", "1", "yes", "YES", "Yes",
                      "false", "FALSE", "fAlSe", "0", "no", "NO", "No",
                      "maybe", "Maybe", "2", "on"}}
        \cup {Str(<<>>), Str(<<"true", " ">>), Str(<<"no", ",", "yes">>)}

\* parameters for the action schedule with such a string in its boolean field
BooleanParameterInputs ==
    {Obj([done |-> text, tags |-> Arr(<<>>)]) : text \in BooleanTexts}
        \cup {Obj([done |-> Bool(FALSE), tags |-> Arr(<<>>), flag |-> text]) :
                 text \in {Word("TRUE"), Word("Yes"), Word("0"), Word("fAlSe"),
                           Word("Maybe"), Str(<<>>)}}
        \cup {Obj([done |-> Word("Yes"), tags |-> Arr(<<>>), flag |-> Word("Maybe")])}

\* parameters for the action schedule whose fields hold values that are no
\* strings: of the declared type, of another type, null
TypedParameterInputs ==
    {Obj([done |-> Num(1), tags |-> Arr(<<Word("a")>>)]),
     Obj([done |-> Null, flag |-> Null, due |-> Null, tags |-> Null, meta |-> Null]),
     Obj([done |-> Bool(FALSE), flag |-> Bool(TRUE),
          tags |-> Arr(<<Word("a"), Word("b")>>), meta |-> Obj([x |-> Num(1)])]),
     Obj([done |-> Num(0), due |-> Num(5), tags |-> Obj([a |-> Num(1)]), meta |-> Arr(<<>>)]),
     Obj([done |-> Arr(<<Word("true")>>), due |-> Bool(FALSE), tags |-> Bool(TRUE),
          meta |-> Num(1)])}

\* response texts a model may write
ResponseInputs == {Word("It is sunny in Istanbul."), Word("2 + 3 = 5")}

GoodEnvelope ==
    Envelope(Word("getWeather"), Obj([city |-> Word("Istanbul")]),
             Word("It is sunny in Istanbul."))

\* JSON values that are no envelope of the three typed keys
MisshapenDocs ==
    {Null, Num(5), Bool(TRUE), Word("hello"), Arr(<<>>), EmptyObj,
     Obj([actionName |-> Word("getWeather"),
          parameters |-> Obj([city |-> Word("Istanbul")])]),
     Obj([actionName |-> Word("getWeather"), response |-> Word("2 + 3 = 5")]),
     Obj([parameters |-> EmptyObj, response |-> Word("2 + 3 = 5")]),
     Envelope(Num(1), Obj([city |-> Word("Istanbul")]), Word("2 + 3 = 5")),
     Envelope(Word("getWeather"), Word("Istanbul"), Word("2 + 3 = 5")),
     Envelope(Word("getWeather"), Num(1), Word("2 + 3 = 5")),
     Envelope(Word("getWeather"), Obj([city |-> Word("Istanbul")]), Num(7)),
     Envelope(Word("getWeather"), Obj([city |-> Word("Istanbul")]), Null)}

Docs ==
    {Envelope(n, p, r) : n \in NameInputs, p \in ParameterInputs, r \in ResponseInputs}
        \cup {Envelope(Word("schedule"), p, Word("2 + 3 = 5")) :
                 p \in BooleanParameterInputs \cup TypedParameterInputs}
        \cup MisshapenDocs

\* a JSON text: one value, blanks allowed around it
JsonTexts == {<<Doc(d)>> : d \in Docs} \cup {<<Sp, Doc(GoodEnvelope), Nl>>}

\* "```json\n" + J + "\n```"
Wrap(J) == <<Ticks, Json, Nl>> \o J \o <<Nl, Ticks>>

\* texts that are neither a JSON text nor a fenced one
OtherTexts ==
    LET D == Doc(GoodEnvelope) IN
    {<<>>, <<Prose>>, <<Ticks>>, <<Json>>, <<D, D>>, <<Prose, D>>, <<D, Prose>>,
     <<Ticks, Json, Nl, D>>, <<D, Nl, Ticks>>, <<D, Ticks>>,
     <<Ticks, Nl, D, Nl, Ticks>>, <<Ticks, Json, D, Ticks>>,
     <<Sp, Ticks, Json, Nl, D, Nl, Ticks>>, <<Ticks, Json, Nl, D, Nl, Ticks, Nl>>,
     <<Prose, Nl, Ticks, Json, Nl, D, Nl, Ticks>>,
     <<Ticks, Json, Nl, Ticks, Json, Nl, D, Nl, Ticks>>,
     <<Ticks, Json, Nl, D, Nl, Ticks, Ticks>>,
     <<Ticks, Json, Nl, Prose, Nl, Ticks>>}

\* the message contents the model provider may send
RawTexts == JsonTexts \cup {Wrap(J) : J \in JsonTexts} \cup OtherTexts

\* the values of options.mockChatResponse that are modelled
MockInputs ==
    {NoMock, <<>>, <<Prose>>, Wrap(<<Doc(GoodEnvelope)>>),
     <<Sp, Doc(Envelope(Word("addNumbers"), Obj([a |-> Num(2), b |-> Num(3)]),
                        Word("2 + 3 = 5"))), Nl>>}

\* what a handler may resolve to, and what it may throw or reject with
HandlerReturns ==
    {Undef, Num(5), Word("Weather for Istanbul: 22C, sunny"), Word("2 + 3 = 5")}
HandlerThrows ==
    {Err("Error", <<Lit("weather service unavailable")>>), Err("", <<Lit("boom")>>)}

\* what a failed request to the model provider rejects with
ChatThrows == {Err("APIConnectionError", <<Lit("Connection error.")>>)}

(***************************************************************************)
(* Saafir.run, one action per stage.  run[r].pc is where invocation r is:  *)
(*   idle      not called, or its outcome was taken by the caller          *)
(*   chat      inside determineActionAndExtractParams, awaiting this.chat  *)
(*   parse     the try block of determineActionAndExtractParams            *)
(*   lookup    findActionByName                                            *)
(*   coerce    preprocessParameters (part_001 only)                        *)
(*   validate  action.schema.parse                                         *)
(*   execute   about to call action.call                                   *)
(*   handler   awaiting the promise of action.call                         *)
(*   respond   the handler resolved, return response is next               *)
(*   returned  the promise of run is fulfilled with run[r].returned        *)
(*   failed    the promise of run is rejected with run[r].error            *)
(* The stages between two awaits run without interruption in JavaScript;   *)
(* taking them one at a time only adds interleavings.                      *)
(***************************************************************************)
IdleRun ==
    [pc |-> "idle",
     input |-> <<>>,              \* the argument of run
     messages |-> <<>>,           \* the argument of this.chat
     raw |-> <<>>,                \* response, the text this.chat resolved to
     actionName |-> Undef,        \* the three members of the parsed envelope
     parameters |-> Undef,
     response |-> Undef,
     action |-> NoAction,
     processedParams |-> Undef,
     validatedParams |-> Undef,
     result |-> Undef,            \* what action.call resolved to
     returned |-> Undef,          \* what run resolves to
     caught |-> NoError,          \* error, the parameter of the catch of run
     error |-> NoError,           \* what run rejects with
     calls |-> <<>>,              \* the handler calls made: [call, input]
     chats |-> 0,                 \* calls of this.chat
     requests |-> 0]              \* requests sent to the model provider

\* if (this.mockChatResponse)
MockConfigured == mockChatResponse # NoMock /\ mockChatResponse # <<>>

\* a catch block that drops what it caught
RunErrorWithoutCause(error) ==
    Err("Error", <<Lit("Error occurred while running action: ")>>)

\* the error the catch block of run throws
RunError(error) ==
    Err("Error", <<Lit("Error occurred while running action: ")>> \o ErrorToString(error))

\* new Error(`Action "${actionName}" not found.`)
NotFoundError(actionName) ==
    Err("Error", <<Lit("Action \"")>> \o StrToks(actionName) \o <<Lit("\" not found.")>>)

\* reading parse of action.schema when action.schema is undefined
SchemaTypeError ==
    Err("TypeError", <<Lit("Cannot read properties of undefined (reading 'parse')")>>)

\* a catch block that asks the model once more before it gives up
FailAfterOneRetry(r, thrown) ==
    IF run[r].chats < 2
    THEN run' = [run EXCEPT ![r] = [@ EXCEPT !.pc = "chat", !.chats = @ + 1]]
    ELSE run' = [run EXCEPT ![r] = [@ EXCEPT !.pc = "failed",
                                             !.caught = thrown,
                                             !.error = RunError(thrown)]]

\* a catch block that asks the model again instead of rethrowing
FailRetrying(r, thrown) ==
    run' = [run EXCEPT ![r] = [@ EXCEPT !.pc = "chat", !.caught = thrown]]

\* the catch block of run: whatever was thrown is wrapped and rethrown
Fail(r, thrown) ==
    run' = [run EXCEPT ![r] = [@ EXCEPT !.pc = "failed",
                                        !.caught = thrown,
                                        !.error = RunError(thrown)]]

\* a run that validates right after the lookup
AfterLookupSkipsCoercion == "validate"

\* the stage after a successful lookup
AfterLookup == IF coercionLayer THEN "coerce" ELSE "validate"

\* the argument of action.schema.parse
ValidationInput(r) ==
    IF coercionLayer THEN run[r].processedParams ELSE run[r].parameters

\* a run that resolves to what the handler resolved to
ReturnValueOfHandler(r) == run[r].result

\* a run that prefers a text the handler resolved to over the response
ReturnValueTextOfHandler(r) ==
    IF run[r].result.k = "str" THEN run[r].result ELSE run[r].response

\* a class that keeps the parsed envelope in a field of the instance: run
\* returns the response of the first invocation that still holds one
ReturnValueOfSharedEnvelope(r) ==
    LET holders == {q \in Slots : run[q].response # Undef}
        first == CHOOSE q \in holders : \A p \in holders : q <= p
    IN  run[first].response

\* the value of the return statement of run
ReturnValue(r) == run[r].response

\* a handler called with what went into validation, not with what came out
HandlerInputUnvalidated(r) == ValidationInput(r)

\* the argument of action.call
HandlerInput(r) == run[r].validatedParams

\* run(input) is called: it builds the prompt and runs up to the await of
\* this.chat, which sends a request unless a mock response is configured;
\* inputs is what the caller may pass
CallWith(r, inputs) ==
    /\ run[r].pc = "idle"
    /\ \E input \in inputs :
          run' = [run EXCEPT ![r] =
                     [@ EXCEPT !.pc = "chat",
                               !.input = input,
                               !.messages = Messages(context, Prompt(actions, input)),
                               !.chats = @ + 1,
                               !.requests = IF MockConfigured THEN @ ELSE @ + 1]]
    /\ UNCHANGED <<actions, mockChatResponse, coercionLayer, context>>

Call(r) == CallWith(r, UserInputs)

\* a caller that awaits each run before it calls the next
Start(r) ==
    /\ \A q \in Slots \ {r} : run[q].pc = "idle"
    /\ Call(r)

\* this.chat resolves: the mock response, or the trimmed content of the first
\* choice, "" when the completion has none; contents is what the provider
\* may answer
ChatResolvesWith(r, contents) ==
    /\ run[r].pc = "chat"
    /\ \E text \in (IF MockConfigured THEN {mockChatResponse}
                    ELSE {Trim(content) : content \in contents}) :
          run' = [run EXCEPT ![r] = [@ EXCEPT !.pc = "parse", !.raw = text]]
    /\ UNCHANGED <<actions, mockChatResponse, coercionLayer, context>>

ChatResolves(r) == ChatResolvesWith(r, RawTexts)

\* the request to the model provider fails
ChatRejects(r) ==
    /\ run[r].pc = "chat"
    /\ ~MockConfigured
    /\ \E e \in ChatThrows : Fail(r, e)
    /\ UNCHANGED <<actions, mockChatResponse, coercionLayer, context>>

\* the try/catch of determineActionAndExtractParams and the destructuring
Parse(r) ==
    /\ run[r].pc = "parse"
    /\ LET got == ParseEnvelope(run[r].raw) IN
       IF got.ok
       THEN run' = [run EXCEPT ![r] =
                       [@ EXCEPT !.pc = "lookup",
                                 !.actionName = got.envelope.v.actionName,
                                 !.parameters = got.envelope.v.parameters,
                                 !.response = got.envelope.v.response]]
       ELSE Fail(r, got.error)
    /\ UNCHANGED <<actions, mockChatResponse, coercionLayer, context>>

\* a lookup that stores what it found under the name that was asked for
LookupCaching(r) ==
    /\ run[r].pc = "lookup"
    /\ LET action == FindActionByName(actions, run[r].actionName)
           key == IF Len(run[r].actionName.v) = 1 THEN run[r].actionName.v[1] ELSE ""
       IN  /\ IF action.def = "null"
              THEN Fail(r, NotFoundError(run[r].actionName))
              ELSE run' = [run EXCEPT ![r] = [@ EXCEPT !.pc = AfterLookup,
                                                       !.action = action]]
           /\ actions' = [name \in DOMAIN actions \cup {key} |->
                              IF name = key THEN action ELSE actions[name]]
    /\ UNCHANGED <<mockChatResponse, coercionLayer, context>>

\* const action = this.findActionByName(actionName); if (!action) throw
Lookup(r) ==
    /\ run[r].pc = "lookup"
    /\ LET action == FindActionByName(actions, run[r].actionName) IN
       IF action.def = "null"
       THEN Fail(r, NotFoundError(run[r].actionName))
       ELSE run' = [run EXCEPT ![r] = [@ EXCEPT !.pc = AfterLookup, !.action = action]]
    /\ UNCHANGED <<actions, mockChatResponse, coercionLayer, context>>

\* a layer that throws when a string is left in a field it should have repaired
CoerceOrThrow(r) ==
    /\ run[r].pc = "coerce"
    /\ LET schema == run[r].action.schema
           processed == PreprocessParameters(run[r].parameters, schema)
           unrepaired ==
               /\ schema.kind = "object"
               /\ \E key \in DOMAIN schema.shape \cap DOMAIN processed.v :
                     /\ processed.v[key].k = "str"
                     /\ \E kind \in {"boolean", "date", "array", "object"} :
                           \/ schema.shape[key].kind = kind
                           \/ IsOptionalOf(schema.shape[key], kind)
       IN  IF unrepaired
           THEN Fail(r, Err("Error", <<Lit("Parameter coercion failed")>>))
           ELSE run' = [run EXCEPT ![r] = [@ EXCEPT !.pc = "validate",
                                                    !.processedParams = processed]]
    /\ UNCHANGED <<actions, mockChatResponse, coercionLayer, context>>

\* a layer that repairs the fields of the envelope's parameters object itself
CoerceInPlace(r) ==
    /\ run[r].pc = "coerce"
    /\ LET processed == PreprocessParameters(run[r].parameters, run[r].action.schema) IN
       run' = [run EXCEPT ![r] = [@ EXCEPT !.pc = "validate",
                                           !.parameters = processed,
                                           !.processedParams = processed]]
    /\ UNCHANGED <<actions, mockChatResponse, coercionLayer, context>>

\* const processedParams = this.preprocessParameters(parameters, action.schema)
Coerce(r) ==
    /\ run[r].pc = "coerce"
    /\ run' = [run EXCEPT ![r] =
                  [@ EXCEPT !.pc = "validate",
                            !.processedParams =
                                PreprocessParameters(run[r].parameters, run[r].action.schema)]]
    /\ UNCHANGED <<actions, mockChatResponse, coercionLayer, context>>

\* const validatedParams = action.schema.parse(...)
Validate(r) ==
    /\ run[r].pc = "validate"
    /\ IF run[r].action.schema = NoSchema
       THEN Fail(r, SchemaTypeError)
       ELSE LET parsed == ZodParse(run[r].action.schema, ValidationInput(r)) IN
            IF parsed.success
            THEN run' = [run EXCEPT ![r] = [@ EXCEPT !.pc = "execute",
                                                     !.validatedParams = parsed.data]]
            ELSE Fail(r, ZodError(parsed.issues))
    /\ UNCHANGED <<actions, mockChatResponse, coercionLayer, context>>

\* action.call(validatedParams) is called
CallHandler(r) ==
    /\ run[r].pc = "execute"
    /\ run' = [run EXCEPT ![r] =
                  [@ EXCEPT !.pc = "handler",
                            !.calls = Append(@, [call |-> run[r].action.call,
                                                 input |-> HandlerInput(r)])]]
    /\ UNCHANGED <<actions, mockChatResponse, coercionLayer, context>>

\* the promise of the handler is fulfilled: const result = await ...
HandlerResolves(r) ==
    /\ run[r].pc = "handler"
    /\ \E value \in HandlerReturns :
          run' = [run EXCEPT ![r] = [@ EXCEPT !.pc = "respond", !.result = value]]
    /\ UNCHANGED <<actions, mockChatResponse, coercionLayer, context>>

\* the handler throws, or its promise is rejected
HandlerRejects(r) ==
    /\ run[r].pc = "handler"
    /\ \E e \in HandlerThrows : Fail(r, e)
    /\ UNCHANGED <<actions, mockChatResponse, coercionLayer, context>>

\* return response
Return(r) ==
    /\ run[r].pc = "respond"
    /\ run' = [run EXCEPT ![r] = [@ EXCEPT !.pc = "returned", !.returned = ReturnValue(r)]]
    /\ UNCHANGED <<actions, mockChatResponse, coercionLayer, context>>

\* the caller takes the outcome; the locals of the invocation are gone
Discard(r) ==
    /\ run[r].pc \in {"returned", "failed"}
    /\ run' = [run EXCEPT ![r] = IdleRun]
    /\ UNCHANGED <<actions, mockChatResponse, coercionLayer, context>>

\* the instance after new Saafir(options)
Init ==
    /\ actions = Registry
    /\ mockChatResponse \in MockInputs
    /\ coercionLayer \in BOOLEAN
    /\ \E option \in ContextInputs : context = ContextOf(option, Registry)
    /\ run = [r \in Slots |-> IdleRun]

Next ==
    \E r \in Slots :
        \/ Start(r)
        \/ ChatResolves(r)
        \/ ChatRejects(r)
        \/ Parse(r)
        \/ Lookup(r)
        \/ Coerce(r)
        \/ Validate(r)
        \/ CallHandler(r)
        \/ HandlerResolves(r)
        \/ HandlerRejects(r)
        \/ Return(r)
        \/ Discard(r)

Spec == Init /\ [][Next]_vars

\* the contents the provider answers with while several runs are in flight:
\* one envelope that is dispatched as it is, one whose parameters need the
\* coercion layer, one that names no action, and one text that is no JSON
InterleavedTexts ==
    {<<Doc(GoodEnvelope)>>,
     Wrap(<<Doc(Envelope(Word("schedule"),
                         Obj([done |-> Word("TRUE"), tags |-> Str(<<"a", ",", " ", "b">>)]),
                         Word("2 + 3 = 5")))>>),
     <<Doc(Envelope(Word("unknown"), EmptyObj, Word("2 + 3 = 5")))>>,
     <<Prose>>}

\* action names a model may write when the actions form a tree: the key of
\* a leaf, the key of a group, dot-separated paths, the empty name
NestedNameInputs ==
    {Word("add"), Word("get"), Word("getWeather"), Word("calculator"), Word("unknown"),
     Word("constructor"), Str(<<>>),
     Str(<<"calculator", ".", "add">>),
     Str(<<"calculator", ".", "add", ".", "extra">>),
     Str(<<"calculator", ".", "multiply">>),
     Str(<<"user", ".", "profile", ".", "get">>),
     Str(<<"getWeather", ".", "city">>)}

\* the contents the provider answers with for an instance whose actions form
\* a tree
NestedTexts ==
    {<<Doc(Envelope(name, parameters, Word("2 + 3 = 5")))>> :
        name \in NestedNameInputs,
        parameters \in {Obj([a |-> Num(2), b |-> Num(3)]),
                        Obj([city |-> Word("Istanbul")]),
                        Obj([id |-> Word("42")])}}

\* the instance after new Saafir({ actions: <a tree>, ... })
InitNested ==
    /\ actions = NestedRegistry
    /\ mockChatResponse \in MockInputs
    /\ coercionLayer \in BOOLEAN
    /\ \E option \in ContextInputs : context = ContextOf(option, NestedRegistry)
    /\ run = [r \in Slots |-> IdleRun]

NextNested ==
    \E r \in Slots :
        \/ Start(r)
        \/ ChatResolvesWith(r, NestedTexts)
        \/ ChatRejects(r)
        \/ Parse(r)
        \/ Lookup(r)
        \/ Coerce(r)
        \/ Validate(r)
        \/ CallHandler(r)
        \/ HandlerResolves(r)
        \/ HandlerRejects(r)
        \/ Return(r)
        \/ Discard(r)

SpecNested == InitNested /\ [][NextNested]_vars

\* callers that do not wait for each other: run is called while other
\* invocations are suspended at an await
NextConcurrent ==
    \E r \in Slots :
        \/ CallWith(r, {<<Lit("add 2 and 3")>>})
        \/ ChatResolvesWith(r, InterleavedTexts)
        \/ ChatRejects(r)
        \/ Parse(r)
        \/ Lookup(r)
        \/ Coerce(r)
        \/ Validate(r)
        \/ CallHandler(r)
        \/ HandlerResolves(r)
        \/ HandlerRejects(r)
        \/ Return(r)
        \/ Discard(r)

SpecConcurrent == Init /\ [][NextConcurrent]_vars

\* the steps of invocation r after the call of run: the promises of this.chat
\* and of the handler settle, and the event loop runs the code after an await
Progress(r) ==
    \/ ChatResolvesWith(r, InterleavedTexts)
    \/ ChatRejects(r)
    \/ Parse(r)
    \/ Lookup(r)
    \/ Coerce(r)
    \/ Validate(r)
    \/ CallHandler(r)
    \/ HandlerResolves(r)
    \/ HandlerRejects(r)
    \/ Return(r)

\* a caller that awaits each run before it calls the next
NextSequential ==
    \E r \in Slots :
        \/ /\ \A q \in Slots \ {r} : run[q].pc = "idle"
           /\ CallWith(r, {<<Lit("add 2 and 3")>>})
        \/ Progress(r)
        \/ Discard(r)

\* such a caller, where every promise a run awaits settles eventually and the
\* event loop runs every continuation
SpecFair ==
    /\ Init
    /\ [][NextSequential]_vars
    /\ \A r \in Slots : WF_vars(Progress(r))

(***************************************************************************)
(* Properties                                                              *)
(***************************************************************************)
\* part occurs in text as a run of consecutive tokens
Contains(text, part) ==
    \E i \in 0..(Len(text) - Len(part)) : SubSeq(text, i + 1, i + Len(part)) = part

\* name is a key of the registry given at construction
Registered(name) == name.k = "str" /\ Len(name.v) = 1 /\ name.v[1] \in DOMAIN Registry

\* invocation r got a text from this.chat
Received(r) == run[r].pc \notin {"idle", "chat"} /\ run[r].caught \notin ChatThrows

\* invocation r is past the try block of determineActionAndExtractParams
PastParse(r) == Received(r) /\ run[r].pc # "parse"

\* invocation r was rejected by the catch block of determineActionAndExtractParams
FailedAtParse(r) ==
    run[r].pc = "failed" /\ run[r].caught = InvalidJsonError(run[r].raw)

\* the response member of the envelope the text of invocation r holds
ResponseWritten(r) == ParseEnvelope(run[r].raw).envelope.v.response

C3_UnregisteredNameIsNotFound ==
    \A r \in Slots :
        (PastParse(r) /\ ~FailedAtParse(r) /\ ~Registered(run[r].actionName)) =>
            /\ run[r].calls = <<>>
            /\ \/ run[r].pc = "lookup"
               \/ /\ run[r].pc = "failed"
                  /\ run[r].error = RunError(NotFoundError(run[r].actionName))

\* the JSON value is an envelope: an object whose actionName and response
\* are strings and whose parameters is an object, not null and not an array
IsEnvelope(doc) ==
    /\ doc.k = "obj"
    /\ {"actionName", "parameters", "response"} \subseteq DOMAIN doc.v
    /\ doc.v.actionName.k = "str"
    /\ doc.v.parameters.k = "obj"
    /\ doc.v.response.k = "str"

\* C4: a text whose parsed JSON is structurally invalid (actionName no
\* string, response missing or no string, parameters no object, null and
\* arrays included) makes run fail with the invalid-envelope error; lookup,
\* coercion, validation and the handler are never reached.
C4_MisshapenEnvelopeIsRejected ==
    \A r \in Slots :
        LET parsed == JsonParse(Clean(run[r].raw)) IN
        (PastParse(r) /\ parsed.ok /\ ~IsEnvelope(parsed.value)) =>
            /\ FailedAtParse(r)
            /\ run[r].calls = <<>>

\* C5: a JSON text J wrapped as "```json\n" + J + "\n```" gives the same
\* result as J itself: the same envelope, or the invalid-envelope failure.
C5_FencedTextParsesAsBareText ==
    \A r \in Slots : \A J \in JsonTexts :
        (PastParse(r) /\ run[r].raw = Wrap(J)) =>
            LET bare == ParseEnvelope(J) IN
            IF bare.ok
            THEN /\ ~FailedAtParse(r)
                 /\ run[r].actionName = bare.envelope.v.actionName
                 /\ run[r].parameters = bare.envelope.v.parameters
                 /\ run[r].response = bare.envelope.v.response
            ELSE FailedAtParse(r)

C5_Witness ==
    \E r \in Slots :
        /\ run[r].raw = Wrap(<<Sp, Doc(GoodEnvelope), Nl>>)
        /\ run[r].pc = "lookup"
        /\ run[r].parameters = Obj([city |-> Word("Istanbul")])

\* what run hands to action.schema.parse, told from the envelope alone
ExpectedValidationInput(r) ==
    IF coercionLayer
    THEN PreprocessParameters(run[r].parameters, run[r].action.schema)
    ELSE run[r].parameters

\* C6: the handler is invoked only after validation of the (coerced)
\* parameters succeeded, with exactly the value validation returned; when
\* validation fails the run is rejected with the ZodError and the handler is
\* not invoked.
C6_HandlerGetsValidatedParameters ==
    \A r \in Slots :
        LET checked == ZodParse(run[r].action.schema, ExpectedValidationInput(r)) IN
        /\ run[r].calls # <<>> =>
              /\ run[r].action.def = "own"
              /\ checked.success
              /\ run[r].calls = <<[call |-> run[r].action.call, input |-> checked.data]>>
        /\ (run[r].action.def = "own" /\ run[r].pc \notin {"coerce", "validate"}
                /\ ~checked.success) =>
              /\ run[r].pc = "failed"
              /\ run[r].caught = ZodError(checked.issues)
              /\ run[r].calls = <<>>

C6_Witness ==
    \E r \in Slots :
        /\ run[r].pc = "handler"
        /\ run[r].parameters = Obj([city |-> Word("Istanbul"), extra |-> Word("x")])
        /\ run[r].calls = <<[call |-> "getWeather", input |-> Obj([city |-> Word("Istanbul")])]>>

\* C7: when the handler throws or rejects, run does not resolve to the
\* response: it is rejected with an error that carries the handler's error.
C7_HandlerErrorIsWrapped ==
    \A r \in Slots :
        (run[r].pc = "failed" /\ run[r].calls # <<>>) =>
            /\ run[r].caught \in HandlerThrows
            /\ run[r].returned = Undef
            /\ run[r].error.name = "Error"
            /\ Contains(run[r].error.message, ErrorToString(run[r].caught))

C7_Witness ==
    \E r \in Slots :
        /\ run[r].pc = "failed"
        /\ Len(run[r].calls) = 1
        /\ run[r].caught = Err("Error", <<Lit("weather service unavailable")>>)

\* the stage an error message names
StageNamed(error) ==
    IF Contains(error.message, <<Lit("AI response is not valid JSON: ")>>) THEN "envelope"
    ELSE IF Contains(error.message, <<Lit("\" not found.")>>) THEN "lookup"
    ELSE IF Contains(error.message, <<Lit("ZodError")>>) THEN "validation"
    ELSE "execution"

\* the first stage that cannot succeed for invocation r
FirstFailingStage(r) ==
    IF ~ParseEnvelope(run[r].raw).ok THEN "envelope"
    ELSE IF ~Registered(run[r].actionName) THEN "lookup"
    ELSE IF run[r].calls = <<>> THEN "validation"
    ELSE "execution"

\* C8: the error of a failing run names the stage that failed first; a name
\* that is not registered is never reported as the failure of a later stage.
C8_ErrorNamesFirstFailingStage ==
    \A r \in Slots :
        (run[r].pc = "failed" /\ Received(r)) =>
            StageNamed(run[r].error) = FirstFailingStage(r)

\* C9: when the envelope parser fails, the error run is rejected with
\* contains the complete text this.chat gave.
C9_ParseErrorCarriesRawText ==
    \A r \in Slots :
        (PastParse(r) /\ ~ParseEnvelope(run[r].raw).ok) =>
            /\ run[r].pc = "failed"
            /\ Len(run[r].error.message) >= Len(run[r].raw)
            /\ SubSeq(run[r].error.message,
                      Len(run[r].error.message) - Len(run[r].raw) + 1,
                      Len(run[r].error.message)) = run[r].raw

C9_Witness ==
    \E r \in Slots :
        /\ run[r].pc = "failed"
        /\ run[r].raw = <<Ticks, Nl, Doc(GoodEnvelope), Nl, Ticks>>
        /\ Contains(run[r].error.message, run[r].raw)

\* C10: one invocation asks for at most one chat completion and invokes at
\* most one handler, and a failed invocation executes nothing more: it stays
\* as it is until the caller takes the error.
C10_NoRetry ==
    /\ [](\A r \in Slots :
             run[r].chats <= 1 /\ run[r].requests <= 1 /\ Len(run[r].calls) <= 1)
    /\ [][\A r \in Slots :
             run[r].pc = "failed" => (run'[r] = run[r] \/ run'[r] = IdleRun)]_vars

C10_Witness ==
    \E r \in Slots :
        /\ run[r].pc = "failed"
        /\ run[r].chats = 1
        /\ run[r].requests = 1
        /\ Len(run[r].calls) = 1

\* C11 as stated: whatever string is configured as mockChatResponse, the
\* empty string included, this.chat resolves to that very string and no
\* request is sent to the model provider.
C11_MockReturnedVerbatim ==
    \A r \in Slots :
        mockChatResponse # NoMock =>
            /\ run[r].requests = 0
            /\ Received(r) => run[r].raw = mockChatResponse

\* the steps from one stage to the next: the order of the statements of run,
\* the throw of any stage leading to the catch block
StageSteps ==
    {<<"idle", "chat">>, <<"chat", "parse">>, <<"parse", "lookup">>,
     <<"lookup", IF coercionLayer THEN "coerce" ELSE "validate">>,
     <<"coerce", "validate">>, <<"validate", "execute">>, <<"execute", "handler">>,
     <<"handler", "respond">>, <<"respond", "returned">>,
     <<"returned", "idle">>, <<"failed", "idle">>}
        \cup {<<stage, "failed">> : stage \in {"chat", "parse", "lookup", "validate", "handler"}}

\* what the stages before the one invocation r is in have left behind
EarlierStagesCompleted(r) ==
    LET pc == run[r].pc
        checked == ZodParse(run[r].action.schema, ExpectedValidationInput(r))
    IN
    /\ pc \in {"lookup", "coerce", "validate", "execute", "handler", "respond", "returned"} =>
          /\ run[r].chats = 1
          /\ ParseEnvelope(run[r].raw).ok
          /\ run[r].response = ResponseWritten(r)
    /\ pc \in {"coerce", "validate", "execute", "handler", "respond", "returned"} =>
          /\ run[r].action = FindActionByName(actions, run[r].actionName)
          /\ run[r].action # NoAction
    /\ pc = "coerce" => coercionLayer
    /\ (coercionLayer /\ pc \in {"validate", "execute", "handler", "respond", "returned"}) =>
          run[r].processedParams = ExpectedValidationInput(r)
    /\ pc \in {"execute", "handler", "respond", "returned"} =>
          /\ checked.success
          /\ run[r].validatedParams = checked.data
    /\ pc \in {"idle", "chat", "parse", "lookup", "coerce", "validate", "execute"} =>
          run[r].calls = <<>>
    /\ pc \in {"handler", "respond", "returned"} => Len(run[r].calls) = 1
    /\ pc \in {"respond", "returned"} => run[r].result \in HandlerReturns
    /\ pc # "returned" => run[r].returned = Undef
    /\ pc = "returned" => run[r].returned = run[r].response

\* C12: every run goes through chat completion, envelope parse, registry
\* lookup, parameter coercion (where the class has that layer), schema
\* validation, handler execution and response return in this order; a stage
\* is entered only from the stage before it and only with what the earlier
\* stages produced, and the response is returned only after the awaited
\* handler resolved.
C12_StagesInOrder ==
    /\ [](\A r \in Slots : EarlierStagesCompleted(r))
    /\ [][\A r \in Slots :
             run'[r].pc # run[r].pc => <<run[r].pc, run'[r].pc>> \in StageSteps]_vars

C12_Witness ==
    \E r \in Slots :
        /\ coercionLayer
        /\ run[r].pc = "returned"
        /\ run[r].actionName = Word("schedule")
        /\ run[r].processedParams # run[r].parameters
        /\ run[r].result = Undef
        /\ run[r].returned = Word("It is sunny in Istanbul.")

\* what one run, executed alone, does with the text this.chat gave it: the
\* handler calls it makes, the value it resolves to once the handler
\* resolved, and the errors it can be rejected with
Alone(text) ==
    LET got == ParseEnvelope(text)
        Rejected(e) == [calls |-> <<>>, returned |-> Undef, errors |-> {RunError(e)}]
    IN
    IF ~got.ok THEN Rejected(got.error)
    ELSE LET envelope == got.envelope.v
             action == FindActionByName(Registry, envelope.actionName)
             input == IF coercionLayer
                      THEN PreprocessParameters(envelope.parameters, action.schema)
                      ELSE envelope.parameters
             checked == ZodParse(action.schema, input)
         IN  IF action = NoAction THEN Rejected(NotFoundError(envelope.actionName))
             ELSE IF action.schema = NoSchema THEN Rejected(SchemaTypeError)
             ELSE IF ~checked.success THEN Rejected(ZodError(checked.issues))
             ELSE [calls |-> <<[call |-> action.call, input |-> checked.data]>>,
                   returned |-> envelope.response,
                   errors |-> {RunError(e) : e \in HandlerThrows}]

\* C13: however the invocations of run on one instance interleave, each one
\* ends as it would alone with the text it got from this.chat: the same
\* handler called with the same argument, the same response returned or the
\* same error; what it holds of the envelope is the envelope of its own text.
C13_InterleavedRunsAreIndependent ==
    \A r \in Slots :
        /\ (PastParse(r) /\ ParseEnvelope(run[r].raw).ok) =>
              /\ run[r].actionName = ParseEnvelope(run[r].raw).envelope.v.actionName
              /\ run[r].parameters = ParseEnvelope(run[r].raw).envelope.v.parameters
              /\ run[r].response = ParseEnvelope(run[r].raw).envelope.v.response
        /\ run[r].pc = "returned" =>
              /\ run[r].calls = Alone(run[r].raw).calls
              /\ run[r].returned = Alone(run[r].raw).returned
        /\ (run[r].pc = "failed" /\ Received(r)) =>
              /\ run[r].calls = Alone(run[r].raw).calls
              /\ run[r].error \in Alone(run[r].raw).errors

C13_Witness ==
    \E r \in Slots : \E q \in Slots \ {r} :
        /\ coercionLayer
        /\ run[r].pc = "handler"
        /\ run[r].actionName = Word("getWeather")
        /\ run[q].pc = "returned"
        /\ run[q].actionName = Word("schedule")
        /\ run[q].returned = Word("2 + 3 = 5")
        /\ run[q].calls # run[r].calls

\* C14: the registry of an instance is what the constructor was given, in
\* every state of every sequence of runs, successful or failing: no stage
\* adds, removes or replaces a registered action, and the action a run holds
\* is the one the registry has under the run's action name.
C14_RegistryNeverChanges ==
    /\ actions = Registry
    /\ \A r \in Slots :
          run[r].action # NoAction =>
              run[r].action = FindActionByName(Registry, run[r].actionName)

C14_Witness ==
    /\ actions = Registry
    /\ \E r \in Slots :
          /\ run[r].pc = "failed"
          /\ run[r].actionName = Word("__proto__")
          /\ run[r].action = Inherited("__proto__")
          /\ run[r].caught = SchemaTypeError

\* invocation r has been through preprocessParameters
Coerced(r) ==
    /\ coercionLayer
    /\ run[r].action # NoAction
    /\ run[r].pc \in {"validate", "execute", "handler", "respond", "returned", "failed"}

\* invocation r was rejected by action.schema.parse with an issue of the
\* given code at the field key
FailedValidationAt(r, key, code) ==
    /\ run[r].pc = "failed"
    /\ run[r].calls = <<>>
    /\ run[r].caught.name = "ZodError"
    /\ <<(<<key>>), code>> \in run[r].caught.message[1].d.v.issues

\* the field is declared kind or optional kind
Declared(fieldSchema, kind) ==
    fieldSchema.kind = kind \/ IsOptionalOf(fieldSchema, kind)

\* the string fields of the envelope's parameters that the schema of the
\* action of invocation r declares as kind
StringFields(r, kind) ==
    IF run[r].action.schema.kind = "object" /\ run[r].parameters.k = "obj"
    THEN {key \in DOMAIN run[r].action.schema.shape \cap DOMAIN run[r].parameters.v :
             /\ Declared(run[r].action.schema.shape[key], kind)
             /\ run[r].parameters.v[key].k = "str"}
    ELSE {}

\* the letter-case variants of "true", "1", "yes" and of "false", "0", "no"
TrueSpellings ==
    {Word(a) : a \in {"true", "TRUE", "True", "tRuE", "1", "yes", "YES", "Yes"}}
FalseSpellings ==
    {Word(a) : a \in {"false", "FALSE", "False", "fAlSe", "0", "no", "NO", "No"}}

\* C15: a string in a field declared boolean or optional boolean becomes
\* true when it is a letter-case variant of "true", "1" or "yes", false when
\* it is one of "false", "0" or "no"; any other string stays as it is and
\* the run is rejected by schema validation at that field.
C15_BooleanStringsAreCoerced ==
    \A r \in Slots :
        Coerced(r) =>
            \A key \in StringFields(r, "boolean") :
                LET raw == run[r].parameters.v[key]
                    coerced == run[r].processedParams.v[key]
                IN  IF raw \in TrueSpellings THEN coerced = Bool(TRUE)
                    ELSE IF raw \in FalseSpellings THEN coerced = Bool(FALSE)
                    ELSE /\ coerced = raw
                         /\ \/ run[r].pc = "validate"
                            \/ FailedValidationAt(r, key, "invalid_type")

C15_Witness ==
    \E r \in Slots :
        /\ Coerced(r)
        /\ run[r].parameters =
              Obj([done |-> Word("Yes"), tags |-> Arr(<<>>), flag |-> Word("Maybe")])
        /\ run[r].processedParams =
              Obj([done |-> Bool(TRUE), tags |-> Arr(<<>>), flag |-> Word("Maybe")])
        /\ FailedValidationAt(r, "flag", "invalid_type")

\* C16 as stated: a string in a field declared array or optional array
\* becomes the value it denotes as JSON when the whole string is a JSON
\* text, and the list of its trimmed comma-separated pieces when it is not;
\* splitting a string cannot fail, so the string itself never stays.
C16_ArrayStringsAreCoerced ==
    \A r \in Slots :
        Coerced(r) =>
            \A key \in StringFields(r, "array") :
                LET raw == run[r].parameters.v[key]
                    coerced == run[r].processedParams.v[key]
                IN  IF JsonValue(raw.v).ok
                    THEN coerced = JsonValue(raw.v).value
                    ELSE coerced = Arr(CommaSplit(raw.v))

\* C17 as stated: a string in a field declared date or optional date from
\* which no valid date can be built is still that string in the coerced
\* parameters.
C17_UnreadableDateStaysString ==
    \A r \in Slots :
        Coerced(r) =>
            \A key \in StringFields(r, "date") :
                run[r].parameters.v[key].v \notin DateTexts =>
                    run[r].processedParams.v[key] = run[r].parameters.v[key]

\* C18: a declared field whose supplied value is no string (a boolean, a
\* number, an array, an object, null) has the same value after coercion,
\* and a declared field that was not supplied is not supplied afterwards.
C18_NonStringsAreUnchanged ==
    \A r \in Slots :
        (Coerced(r) /\ run[r].action.schema.kind = "object" /\ run[r].parameters.k = "obj") =>
            \A key \in DOMAIN run[r].action.schema.shape :
                IF key \in DOMAIN run[r].parameters.v
                THEN run[r].parameters.v[key].k # "str" =>
                        /\ key \in DOMAIN run[r].processedParams.v
                        /\ run[r].processedParams.v[key] = run[r].parameters.v[key]
                ELSE key \notin DOMAIN run[r].processedParams.v

C18_Witness ==
    \E r \in Slots :
        /\ Coerced(r)
        /\ run[r].actionName = Word("schedule")
        /\ run[r].parameters =
              Obj([done |-> Num(0), due |-> Num(5), tags |-> Obj([a |-> Num(1)]),
                   meta |-> Arr(<<>>)])
        /\ run[r].processedParams = run[r].parameters
        /\ run[r].pc = "failed"

\* C19: when the schema of the resolved action is no object schema,
\* preprocessParameters returns the parameters of the envelope as they are,
\* null and arrays included, and action.schema.parse is given that value.
C19_OtherSchemasPassThrough ==
    \A r \in Slots :
        (Coerced(r) /\ run[r].action.schema.kind # "object") =>
            /\ run[r].processedParams = run[r].parameters
            /\ ValidationInput(r) = run[r].parameters

C19_Witness ==
    \E r \in Slots :
        /\ Coerced(r)
        /\ run[r].actionName = Word("log")
        /\ run[r].parameters = Arr(<<Word("Istanbul")>>)
        /\ run[r].processedParams = Arr(<<Word("Istanbul")>>)
        /\ run[r].calls = <<[call |-> "log", input |-> Arr(<<Word("Istanbul")>>)]>>

\* C20: preprocessParameters never ends a run: whatever parameters passed
\* the envelope check and whatever the schema, the step after coercion is
\* schema validation, and a run that fails before its handler was called,
\* with its action found, was rejected by action.schema.parse on the
\* coerced parameters.
C20_CoercionNeverAborts ==
    /\ [][\A r \in Slots :
             (run[r].pc = "coerce" /\ run'[r] # run[r]) =>
                 /\ run'[r].pc = "validate"
                 /\ run'[r].processedParams =
                       PreprocessParameters(run[r].parameters, run[r].action.schema)]_vars
    /\ [](\A r \in Slots :
             (Coerced(r) /\ run[r].pc = "failed" /\ run[r].calls = <<>>) =>
                 \/ run[r].caught = SchemaTypeError
                 \/ run[r].caught =
                       ZodError(ZodParse(run[r].action.schema, run[r].processedParams).issues))

C20_Witness ==
    \E r \in Slots :
        /\ Coerced(r)
        /\ run[r].pc = "failed"
        /\ run[r].parameters =
              Obj([done |-> Bool(TRUE), tags |-> Arr(<<Word("a")>>), meta |-> Word("oops")])
        /\ run[r].processedParams = run[r].parameters
        /\ FailedValidationAt(r, "meta", "invalid_type")

RECURSIVE LeavesNamed(_, _)
\* the action definitions registered under the key name at any depth of tree
LeavesNamed(tree, name) ==
    UNION {IF tree[key].def = "branch" THEN LeavesNamed(tree[key].children, name)
           ELSE IF key = name THEN {tree[key]}
           ELSE {} : key \in DOMAIN tree}

\* invocation r is past findActionByName and the test of what it returned
PastLookup(r) == PastParse(r) /\ ~FailedAtParse(r) /\ run[r].pc # "lookup"

\* invocation r was rejected with the action-not-found error
FailedNotFound(r) ==
    /\ run[r].pc = "failed"
    /\ run[r].caught = NotFoundError(run[r].actionName)
    /\ run[r].calls = <<>>

\* C21 as stated: when the actions form a tree, a name of one segment that is
\* the key of exactly one leaf, at whatever depth, resolves to that leaf and
\* run goes on with the leaf's schema and handler.
C21_LeafNameFindsNestedLeaf ==
    \A r \in Slots :
        (PastLookup(r) /\ Len(run[r].actionName.v) = 1
            /\ Cardinality(LeavesNamed(NestedRegistry, run[r].actionName.v[1])) = 1) =>
            /\ run[r].action \in LeavesNamed(NestedRegistry, run[r].actionName.v[1])
            /\ ~FailedNotFound(r)

\* the segments of a dot-separated path, each as one key ("" for a segment
\* that is empty)
Segments(name) ==
    LET pieces == SplitPlain(name.v, ".", <<(<<>>)>>) IN
    [i \in 1..Len(pieces) |-> IF Len(pieces[i]) = 1 THEN pieces[i][1] ELSE ""]

RECURSIVE Walk(_, _)
\* where the descent along the segments ends in the tree: at a leaf or a
\* group with all segments consumed ("leaf", "branch"), at a segment the
\* current group does not have ("absent"), or at a leaf with segments left
\* over ("overlong")
Walk(tree, segments) ==
    IF Head(segments) \notin DOMAIN tree THEN "absent"
    ELSE LET node == tree[Head(segments)] IN
         IF Len(segments) = 1 THEN (IF node.def = "branch" THEN "branch" ELSE "leaf")
         ELSE IF node.def = "branch" THEN Walk(node.children, Tail(segments))
         ELSE "overlong"

\* the name is the empty path, or a path that leaves the tree or runs past a
\* leaf, and is not the key of a leaf somewhere in the tree
PathFails(name) ==
    \/ name.v = <<>>
    \/ /\ Walk(NestedRegistry, Segments(name)) \in {"absent", "overlong"}
       /\ ~(Len(name.v) = 1 /\ LeavesNamed(NestedRegistry, name.v[1]) # {})

\* C22 as stated: when the actions form a tree, a path with segments left
\* over at a leaf, a path with a segment its current group does not have,
\* and the empty path are all not found: run is rejected with the
\* action-not-found error and holds no action.
C22_FailingPathsAreNotFound ==
    \A r \in Slots :
        (PastLookup(r) /\ PathFails(run[r].actionName)) =>
            /\ FailedNotFound(r)
            /\ run[r].action = NoAction

\* C23 as stated: findActionByName gives the registered definition when the
\* name is a key of the actions given at construction, and null for every
\* other name, the names every object inherits included; run then holds the
\* definition, or is rejected with the action-not-found error.
C23_LookupIsByOwnKey ==
    \A r \in Slots :
        PastLookup(r) =>
            IF Registered(run[r].actionName)
            THEN run[r].action = Registry[run[r].actionName.v[1]]
            ELSE /\ run[r].action = NoAction
                 /\ FailedNotFound(r)

\* the text between one opening fence at the very start, if the text starts
\* with one, and one closing fence at the very end, if what is left ends
\* with one; every other token stays where it is
WithinOuterFences(raw) ==
    LET lead == Len(raw) >= 3 /\ raw[1] = Ticks /\ raw[2] = Json /\ raw[3] = Nl
        from == IF lead THEN 4 ELSE 1
        trail == Len(raw) >= from /\ raw[Len(raw)] = Ticks
        to == IF trail THEN Len(raw) - 1 ELSE Len(raw)
    IN  SubSeq(raw, from, to)

\* C24: what the JSON parser gets is the text without at most one opening
\* fence at its very start and at most one closing fence at its very end,
\* blanks trimmed: a fence anywhere else stays in the text (and makes the
\* parse fail), and a text without fences is parsed as it is.
C24_OnlyOuterFencesAreStripped ==
    \A r \in Slots :
        PastParse(r) =>
            LET parsed == JsonParse(WithinOuterFences(run[r].raw)) IN
            IF parsed.ok /\ EnvelopeShapeOk(parsed.value)
            THEN /\ ~FailedAtParse(r)
                 /\ run[r].actionName = parsed.value.v.actionName
                 /\ run[r].parameters = parsed.value.v.parameters
                 /\ run[r].response = parsed.value.v.response
            ELSE FailedAtParse(r)

C24_Witness ==
    \E r \in Slots :
        /\ run[r].raw = <<Ticks, Json, Nl, Ticks, Json, Nl, Doc(GoodEnvelope), Nl, Ticks>>
        /\ FailedAtParse(r)
        /\ Contains(run[r].error.message, <<Ticks, Json, Nl, Doc(GoodEnvelope)>>)

\* invocation r has called this.chat
Asked(r) == run[r].pc # "idle"

\* text names every key of the registry given at construction
NamesEveryAction(text) ==
    \A name \in DOMAIN Registry : Contains(text, <<Lit(name)>>)

RepairedKinds == {"boolean", "date", "array", "object"}

\* the keys of the envelope's parameters of invocation r that hold a string
\* in a field declared as one of the repaired kinds
RepairableFields(r) == UNION {StringFields(r, kind) : kind \in RepairedKinds}

\* C26: the coercion layer changes only fields that the schema declares
\* boolean, date, array or object (or optional of these) and whose value is a
\* string; every other key of the parameters (a string in a string, number or
\* enum field, a key the schema does not declare) keeps its value, and the
\* result has exactly the keys of the parameters.
C26_CoercionTouchesOnlyRepairableFields ==
    \A r \in Slots :
        Coerced(r) =>
            IF run[r].action.schema.kind # "object"
            THEN run[r].processedParams = run[r].parameters
            ELSE LET own == Spread(run[r].parameters) IN
                 /\ run[r].processedParams.k = "obj"
                 /\ DOMAIN run[r].processedParams.v = DOMAIN own.v
                 /\ \A key \in DOMAIN own.v \ RepairableFields(r) :
                        run[r].processedParams.v[key] = own.v[key]

\* the strings "2" and "3" in the number fields of addNumbers went through
\* the layer as they were, and validation rejected the run at the field a
C26_Witness ==
    \E r \in Slots :
        /\ Coerced(r)
        /\ run[r].action = Registry.addNumbers
        /\ run[r].parameters = Obj([a |-> Word("2"), b |-> Word("3")])
        /\ run[r].processedParams = run[r].parameters
        /\ FailedValidationAt(r, "a", "invalid_type")

\* the parameters member of the envelope the text of invocation r holds
EnvelopeParameters(r) == ParseEnvelope(run[r].raw).envelope.v.parameters

\* C27: the coercion layer never modifies the parameters object of the
\* envelope: after it has run, that object still holds what the text of the
\* model held, and the repaired values are in the copy only.
C27_EnvelopeParametersUntouched ==
    \A r \in Slots :
        Coerced(r) => run[r].parameters = EnvelopeParameters(r)

\* the layer changed a field in the copy and the envelope's parameters still
\* hold the string
C27_Witness ==
    \E r \in Slots :
        /\ Coerced(r)
        /\ run[r].parameters = Obj([done |-> Word("TRUE"), tags |-> Str(<<"a", ",", " ", "b">>)])
        /\ run[r].processedParams.v.done = Bool(TRUE)
        /\ run[r].pc = "returned"

\* C28: a non-empty string in a field declared array or optional array is an
\* array after coercion, never a number, a boolean, null, a plain object or
\* a string.
C28_ArrayFieldHoldsArray ==
    \A r \in Slots :
        Coerced(r) =>
            \A key \in StringFields(r, "array") :
                run[r].parameters.v[key] # Str(<<>>) =>
                    run[r].processedParams.v[key].k = "arr"

\* what a run of the version with the coercion layer (layer = TRUE) or without
\* it does with the text this.chat gave it: the handler calls it makes, the
\* value it resolves to once the handler resolved, the errors it can be
\* rejected with
OutcomeOf(layer, text) ==
    LET got == ParseEnvelope(text)
        Rejected(e) == [calls |-> <<>>, returned |-> Undef, errors |-> {RunError(e)}]
    IN
    IF ~got.ok THEN Rejected(got.error)
    ELSE LET envelope == got.envelope.v
             action == FindActionByName(Registry, envelope.actionName)
             input == IF layer
                      THEN PreprocessParameters(envelope.parameters, action.schema)
                      ELSE envelope.parameters
             checked == ZodParse(action.schema, input)
         IN  IF action = NoAction THEN Rejected(NotFoundError(envelope.actionName))
             ELSE IF action.schema = NoSchema THEN Rejected(SchemaTypeError)
             ELSE IF ~checked.success THEN Rejected(ZodError(checked.issues))
             ELSE [calls |-> <<[call |-> action.call, input |-> checked.data]>>,
                   returned |-> envelope.response,
                   errors |-> {RunError(e) : e \in HandlerThrows}]

\* the parameters of the envelope of invocation r need no repair: an object
\* that is neither null nor an array, without a string in a field declared
\* boolean, date, array or object
NoRepairNeeded(r) ==
    /\ run[r].parameters.k = "obj"
    /\ RepairableFields(r) = {}

\* C29: for a text whose parameters need no repair, the run of the version
\* with the coercion layer and the run of the version without it reach the
\* same outcome: the same handler call, the same response returned, or the
\* same error.
C29_LayerChangesNothingWithoutRepair ==
    \A r \in Slots :
        (PastLookup(r) /\ NoRepairNeeded(r)) =>
            LET other == OutcomeOf(~coercionLayer, run[r].raw) IN
            /\ run[r].pc \in {"execute", "handler", "respond", "returned"}
                   => other.calls # <<>>
            /\ run[r].calls # <<>> => run[r].calls = other.calls
            /\ run[r].pc = "returned" => run[r].returned = other.returned
            /\ run[r].pc = "failed" => run[r].error \in other.errors

\* a run with the layer that was rejected at validation for the strings "2"
\* and "3" in number fields, as the run without the layer is
C29_Witness ==
    \E r \in Slots :
        /\ coercionLayer
        /\ NoRepairNeeded(r)
        /\ run[r].parameters = Obj([a |-> Word("2"), b |-> Word("3")])
        /\ FailedValidationAt(r, "b", "invalid_type")
        /\ OutcomeOf(FALSE, run[r].raw).errors = {run[r].error}

\* invocation r is at the end of run
Completed(r) == run[r].pc \in {"returned", "failed"}

\* the outcome of a completed invocation: the response of the envelope and no
\* error, or one error and no value
OneOutcome(r) ==
    /\ run[r].pc = "returned" =>
          /\ run[r].returned = ParseEnvelope(run[r].raw).envelope.v.response
          /\ run[r].error = NoError
    /\ run[r].pc = "failed" =>
          /\ run[r].error = RunError(run[r].caught)
          /\ run[r].error # NoError
          /\ run[r].returned = Undef

\* C30: when the chat request and the handler eventually resolve or reject,
\* every run that was called eventually completes, and a completed run has
\* returned the response of the envelope or has thrown exactly one error; no
\* run stays in an intermediate stage for ever.
C30_EveryRunCompletes ==
    /\ \A r \in Slots : (run[r].pc # "idle") ~> Completed(r)
    /\ [](\A r \in Slots : OneOutcome(r))

\* a run has asked the model once, called the handler once and returned the
\* response of the envelope
C30_Witness ==
    \E r \in Slots :
        /\ run[r].pc = "returned"
        /\ run[r].chats = 1
        /\ Len(run[r].calls) = 1
        /\ run[r].returned = Word("It is sunny in Istanbul.")
====
